---------------------------- MODULE Spec2Model ----------------------------
(* A model of package retry (github.com/alfzs/retry): the retry loop        *)
(* WithRetry, its default error classifier shouldRetryError, the terminal   *)
(* error RetryError and the HTTPError type the classifier inspects.         *)
(*                                                                          *)
(* An error value is the chain errors.Unwrap walks, outermost layer first;  *)
(* the nil error is the empty chain.  One invocation of WithRetry is a      *)
(* process whose position is pc; the context is cancelled by its owner at   *)
(* any moment (action Cancel).                                              *)
(*                                                                          *)
(* The loop is the one with RetryConfig.ShouldRetry.  The repository also   *)
(* holds retry.go, the same loop without that field and without the         *)
(* classifier check: it behaves as this one does with a ShouldRetry that    *)
(* accepts every error (the classifier "always" below).                     *)
EXTENDS Integers, Sequences, FiniteSets, TLC

(***************************************************************************)
(* Bounds of the model                                                     *)
(***************************************************************************)
\* largest MaxAttempts a caller configures
MaxAttemptsBound == 3
\* longest Unwrap chain of an error handed to the classifier
MaxDepth == 3

(***************************************************************************)
(* Program constants                                                       *)
(***************************************************************************)
DefaultMaxAttempts == 3
\* durations in milliseconds
DefaultMinDelay == 100
DefaultMaxDelay == 5000

(***************************************************************************)
(* Error values                                                            *)
(***************************************************************************)
\* One layer of an error chain: its dynamic type, the StatusCode field of an
\* *HTTPError and the answer of Timeout() of a foreign net.Error.
Layer(type, StatusCode, timeout) ==
    [type |-> type, StatusCode |-> StatusCode, timeout |-> timeout]

StatusCodes == {404, 408, 429, 500, 503}

\* Layers that wrap nothing.
Terminals ==
    {Layer("Canceled", 0, FALSE), Layer("DeadlineExceeded", 0, FALSE),
     Layer("Plain", 0, FALSE)}
    \cup {Layer("HTTPError", s, FALSE) : s \in StatusCodes}
    \cup {Layer("NetError", 0, t) : t \in BOOLEAN}

\* Layers with an Unwrap method: *net.OpError, *url.Error and fmt.Errorf("%w").
Wrappers ==
    {Layer("OpError", 0, FALSE), Layer("URLError", 0, FALSE),
     Layer("Wrapped", 0, FALSE)}

Nil == << >>

RECURSIVE ErrorsOfDepth(_)
ErrorsOfDepth(d) ==
    IF d = 1 THEN {<<t>> : t \in Terminals}
    ELSE {<<w>> \o e : w \in Wrappers, e \in ErrorsOfDepth(d - 1)}

Errors(maxDepth) == UNION {ErrorsOfDepth(d) : d \in 1..maxDepth}

\* context.Canceled and context.DeadlineExceeded as error values
SentinelError(name) == <<Layer(name, 0, FALSE)>>

(***************************************************************************)
(* HTTPError                                                               *)
(***************************************************************************)
\* func (e *HTTPError) Timeout() bool
HTTPTimeout(e) == e.StatusCode = 408

\* func (e *HTTPError) Temporary() bool
TemporaryBroken(e) == e.StatusCode > 500 \/ e.StatusCode = 429
Temporary(e) == e.StatusCode >= 500 \/ e.StatusCode = 429

(***************************************************************************)
(* The default classifier                                                  *)
(***************************************************************************)
\* errors.Is(err, target) for a sentinel target: some layer of the chain is it.
ErrorsIs(err, target) == \E i \in 1..Len(err) : err[i].type = target

\* The dynamic types with the methods Error, Timeout and Temporary, that is
\* the ones assignable to net.Error.  *HTTPError is one of them.
NetErrorTypes == {"DeadlineExceeded", "HTTPError", "NetError", "OpError", "URLError"}

\* errors.As(err, &target): the index of the first layer of one of the types,
\* 0 when there is none.
ErrorsAs(err, types) ==
    IF \E i \in 1..Len(err) : err[i].type \in types
    THEN CHOOSE i \in 1..Len(err) :
            /\ err[i].type \in types
            /\ \A j \in 1..(i - 1) : err[j].type \notin types
    ELSE 0

\* The answer of Timeout() of layer i.  *net.OpError and *url.Error ask the
\* error they hold, when it has a Timeout method.
RECURSIVE TimeoutAt(_, _)
TimeoutAt(err, i) ==
    CASE err[i].type = "HTTPError" -> HTTPTimeout(err[i])
      [] err[i].type = "NetError" -> err[i].timeout
      [] err[i].type = "DeadlineExceeded" -> TRUE
      [] err[i].type \in {"OpError", "URLError"} ->
            /\ i < Len(err)
            /\ err[i + 1].type \in NetErrorTypes
            /\ TimeoutAt(err, i + 1)
      [] OTHER -> FALSE

\* func shouldRetryError(err error) bool
shouldRetryErrorNoNetRow(err) ==
    LET opErr == ErrorsAs(err, {"OpError"})
        urlErr == ErrorsAs(err, {"URLError"})
        httpErr == ErrorsAs(err, {"HTTPError"})
    IN  IF err = Nil THEN FALSE
        ELSE IF ErrorsIs(err, "Canceled") \/ ErrorsIs(err, "DeadlineExceeded") THEN FALSE
        ELSE IF opErr # 0 THEN TRUE
        ELSE IF urlErr # 0 THEN TRUE
        ELSE IF httpErr # 0 THEN Temporary(err[httpErr])
        ELSE FALSE

shouldRetryErrorCancelLast(err) ==
    LET netErr == ErrorsAs(err, NetErrorTypes)
        opErr == ErrorsAs(err, {"OpError"})
        urlErr == ErrorsAs(err, {"URLError"})
        httpErr == ErrorsAs(err, {"HTTPError"})
    IN  IF err = Nil THEN FALSE
        ELSE IF netErr # 0 /\ TimeoutAt(err, netErr) THEN TRUE
        ELSE IF opErr # 0 THEN TRUE
        ELSE IF urlErr # 0 THEN TRUE
        ELSE IF httpErr # 0 THEN Temporary(err[httpErr])
        ELSE FALSE

shouldRetryError(err) ==
    LET netErr == ErrorsAs(err, NetErrorTypes)
        opErr == ErrorsAs(err, {"OpError"})
        urlErr == ErrorsAs(err, {"URLError"})
        httpErr == ErrorsAs(err, {"HTTPError"})
    IN  IF err = Nil THEN FALSE
        ELSE IF ErrorsIs(err, "Canceled") \/ ErrorsIs(err, "DeadlineExceeded") THEN FALSE
        ELSE IF netErr # 0 /\ TimeoutAt(err, netErr) THEN TRUE
        ELSE IF opErr # 0 THEN TRUE
        ELSE IF urlErr # 0 THEN TRUE
        ELSE IF httpErr # 0 THEN Temporary(err[httpErr])
        ELSE FALSE

(***************************************************************************)
(* State                                                                   *)
(***************************************************************************)
VARIABLES
    callerConfig,   \* the RetryConfig value the caller holds
    ctxErr,         \* ctx.Err(): "none" until the context is cancelled
    pc,             \* position of the invocation: entry, call, wait, done
    config,         \* WithRetry's own copy of the RetryConfig
    attempt,        \* the loop variable
    result,         \* var result T
    lastErr,        \* var lastErr error
    timer,          \* the arguments of the delay being waited for
    ret,            \* what WithRetry returned: [val, err]
    events,         \* what was written to config.Logger, in order
    calls,          \* how many times operationFn has been invoked
    waits,          \* how many times the select was entered
    elapsed,        \* how many times the timer branch of the select was taken
    opOut,          \* what the most recent call of operationFn returned
    rejectedAt,     \* the attempt whose error ShouldRetry rejected, or 0
    exit,           \* the return statement taken
    cpc,            \* position of a direct call of the classifier
    cerr,           \* its argument
    cret            \* its answer

loopVars ==
    <<callerConfig, ctxErr, pc, config, attempt, result, lastErr, timer, ret,
      events, calls, waits, elapsed, opOut, rejectedAt, exit>>
classifierVars == <<cpc, cerr, cret>>
vars == <<loopVars, classifierVars>>

(***************************************************************************)
(* Values of the loop                                                      *)
(***************************************************************************)
OperationName == "op"

\* The values of T; var result T starts as the zero value.
Values == {"zero", "v1"}
ZeroValue == "zero"

\* The errors operationFn returns in the loop: every unwrapped error, a
\* wrapped cancellation and a transport error around a permanent HTTP status.
OperationErrors ==
    Errors(1)
    \cup {<<Layer("Wrapped", 0, FALSE), Layer("Canceled", 0, FALSE)>>,
          <<Layer("URLError", 0, FALSE), Layer("HTTPError", 404, FALSE)>>}

\* The classifiers a caller sets: none, or a function of its own.
Classifiers == {"nil", "always", "never", "plainOnly"}

Configs ==
    [MaxAttempts : -1..MaxAttemptsBound,
     MinDelay : {-1, 0, 10},
     MaxDelay : {-5, 0, 50},
     Logger : BOOLEAN,
     ShouldRetry : Classifiers]

\* An error returned to the caller: nil, a *RetryError, or another error value.
NoError == [type |-> "nil", Operation |-> "", Attempts |-> 0, LastError |-> Nil, value |-> Nil]
OtherError(e) ==
    [type |-> "error", Operation |-> "", Attempts |-> 0, LastError |-> Nil, value |-> e]
RetryError(operation, attempts, lastError) ==
    [type |-> "RetryError", Operation |-> operation, Attempts |-> attempts,
     LastError |-> lastError, value |-> Nil]
NotReturned == [val |-> ZeroValue, err |-> [NoError EXCEPT !.type = "none"]]

\* backoff.CalculateExponentialBackoff(attempt, minDelay, maxDelay): the
\* calculator is another package; a delay is known by the arguments it was
\* asked for.
CalculateExponentialBackoff(a, minDelay, maxDelay) ==
    [attempt |-> a, MinDelay |-> minDelay, MaxDelay |-> maxDelay]
NoTimer == [attempt |-> 0, MinDelay |-> 0, MaxDelay |-> 0]

(***************************************************************************)
(* WithRetry                                                               *)
(***************************************************************************)
\* if config.X <= 0 { config.X = DefaultX }
DefaultIntZeroOnly(x, d) == IF x = 0 THEN d ELSE x
DefaultInt(x, d) == IF x <= 0 THEN d ELSE x

\* if config.ShouldRetry == nil { config.ShouldRetry = shouldRetryError }
DefaultShouldRetryMissing(sr) == sr
DefaultShouldRetry(sr) == IF sr = "nil" THEN "shouldRetryError" ELSE sr

ApplyDefaultsAttemptsOnly(cfg) ==
    [cfg EXCEPT !.MaxAttempts = DefaultInt(cfg.MaxAttempts, DefaultMaxAttempts),
                !.ShouldRetry = DefaultShouldRetry(cfg.ShouldRetry)]
ApplyDefaults(cfg) ==
    [cfg EXCEPT !.MaxAttempts = DefaultInt(cfg.MaxAttempts, DefaultMaxAttempts),
                !.MinDelay = DefaultInt(cfg.MinDelay, DefaultMinDelay),
                !.MaxDelay = DefaultInt(cfg.MaxDelay, DefaultMaxDelay),
                !.ShouldRetry = DefaultShouldRetry(cfg.ShouldRetry)]

\* config.ShouldRetry(err)
ShouldRetry(sr, err) ==
    CASE sr = "shouldRetryError" -> shouldRetryError(err)
      [] sr = "always" -> TRUE
      [] sr = "never" -> FALSE
      [] sr = "plainOnly" -> err # Nil /\ err[1].type = "Plain"

\* config.ShouldRetry != nil && !config.ShouldRetry(lastErr)
AbortsNever(sr, err) == FALSE
Aborts(sr, err) == sr # "nil" /\ ~ShouldRetry(sr, err)

\* attempt == config.MaxAttempts
IsLastAttemptMissing(a, maxAttempts) == FALSE
IsLastAttemptOffByOne(a, maxAttempts) == a + 1 >= maxAttempts
IsLastAttempt(a, maxAttempts) == a = maxAttempts

\* return result, nil
SuccessReturnZero(res) == [val |-> ZeroValue, err |-> NoError]
SuccessReturn(res) == [val |-> res, err |-> NoError]

\* return result, ctx.Err()
CancelReturnWrapped(res, cerrName, cfg, last) ==
    [val |-> res, err |-> RetryError(OperationName, cfg.MaxAttempts, last)]
CancelReturn(res, cerrName, cfg, last) ==
    [val |-> res, err |-> OtherError(SentinelError(cerrName))]

\* return result, &RetryError{operationName, config.MaxAttempts, lastErr}
FinalReturnSwallowed(res, cfg, last) == [val |-> res, err |-> NoError]
FinalReturnNoCause(res, cfg, last) ==
    [val |-> res, err |-> RetryError(OperationName, cfg.MaxAttempts, Nil)]
FinalReturnZero(res, cfg, last) ==
    [val |-> ZeroValue, err |-> RetryError(OperationName, cfg.MaxAttempts, last)]
FinalReturn(res, cfg, last) ==
    [val |-> res, err |-> RetryError(OperationName, cfg.MaxAttempts, last)]

Event(kind, a) == [kind |-> kind, attempt |-> a]
\* a call of a method of config.Logger, which may be nil
Log(cfg, log, kind, a) == IF cfg.Logger THEN Append(log, Event(kind, a)) ELSE log

\* if attempt > 1 && config.Logger != nil { config.Logger.Info("Operation
\* succeeded after retry", ...) }
SucceededEventsAlways(cfg, log, a) == Log(cfg, log, "succeeded", a)
SucceededEvents(cfg, log, a) == IF a > 1 THEN Log(cfg, log, "succeeded", a) ELSE log

\* config.Logger.Warn("Retry aborted due to non-retriable error", ...)
AbortedEventsAfterWillRetry(cfg, log, a) ==
    Log(cfg, Log(cfg, log, "will retry", a), "aborted", a)
AbortedEvents(cfg, log, a) == Log(cfg, log, "aborted", a)

\* config.Logger.Error("Operation failed, will retry", ...)
WillRetryEvents(cfg, log, a) == Log(cfg, log, "will retry", a)

\* func (e *RetryError) Unwrap() error
Unwrap(e) == e.LastError

LoopInit ==
    /\ callerConfig \in Configs
    /\ ctxErr = "none"
    /\ pc = "entry"
    /\ config = callerConfig
    /\ attempt = 0
    /\ result = ZeroValue
    /\ lastErr = Nil
    /\ timer = NoTimer
    /\ ret = NotReturned
    /\ events = << >>
    /\ calls = 0
    /\ waits = 0
    /\ elapsed = 0
    /\ opOut = [val |-> ZeroValue, err |-> Nil]
    /\ rejectedAt = 0
    /\ exit = "none"

ClassifierIdle == cpc = "idle" /\ cerr = Nil /\ cret = FALSE

Init == LoopInit /\ ClassifierIdle

\* The owner of the context cancels it, or its deadline passes: before
\* WithRetry is entered (pc = "entry") or at any moment until it returns.
Cancel ==
    /\ ctxErr = "none"
    /\ pc # "done"
    /\ ctxErr' \in {"Canceled", "DeadlineExceeded"}
    /\ UNCHANGED <<callerConfig, pc, config, attempt, result, lastErr, timer, ret,
                   events, calls, waits, elapsed, opOut, rejectedAt, exit>>
    /\ UNCHANGED classifierVars

\* Entry of WithRetry: the defaults, the two locals, the loop's init and its
\* condition.
Enter ==
    /\ pc = "entry"
    /\ config' = ApplyDefaults(config)
    /\ result' = ZeroValue
    /\ lastErr' = Nil
    /\ attempt' = 1
    /\ IF 1 <= config'.MaxAttempts
       THEN /\ pc' = "call"
            /\ UNCHANGED <<ret, exit>>
       ELSE /\ ret' = FinalReturn(ZeroValue, config', Nil)
            /\ pc' = "done"
            /\ exit' = "exhausted"
    /\ UNCHANGED <<callerConfig, ctxErr, timer, events, calls, waits,
                   elapsed, opOut, rejectedAt>>
    /\ UNCHANGED classifierVars

\* One iteration of the loop, from the call of operationFn to a return or to
\* the select.
CallOperation ==
    /\ pc = "call"
    /\ attempt <= config.MaxAttempts
    /\ \E val \in Values, err \in {Nil} \cup OperationErrors :
        /\ result' = val
        /\ lastErr' = err
        /\ opOut' = [val |-> val, err |-> err]
        /\ calls' = calls + 1
        /\ rejectedAt' = (IF /\ rejectedAt = 0
                             /\ err # Nil
                             /\ config.ShouldRetry # "nil"
                             /\ ~ShouldRetry(config.ShouldRetry, err)
                          THEN attempt
                          ELSE rejectedAt)
        /\ IF err = Nil
           THEN /\ events' = SucceededEvents(config, events, attempt)
                /\ ret' = SuccessReturn(val)
                /\ pc' = "done"
                /\ exit' = "success"
                /\ UNCHANGED <<timer, waits>>
           ELSE IF Aborts(config.ShouldRetry, err)
           THEN /\ events' = AbortedEvents(config, events, attempt)
                /\ ret' = FinalReturn(val, config, err)
                /\ pc' = "done"
                /\ exit' = "aborted"
                /\ UNCHANGED <<timer, waits>>
           ELSE IF IsLastAttempt(attempt, config.MaxAttempts)
           THEN /\ events' = WillRetryEvents(config, events, attempt)
                /\ ret' = FinalReturn(val, config, err)
                /\ pc' = "done"
                /\ exit' = "exhausted"
                /\ UNCHANGED <<timer, waits>>
           ELSE /\ events' = WillRetryEvents(config, events, attempt)
                /\ timer' = CalculateExponentialBackoff(attempt, config.MinDelay,
                                                        config.MaxDelay)
                /\ waits' = waits + 1
                /\ pc' = "wait"
                /\ UNCHANGED <<ret, exit>>
    /\ UNCHANGED <<callerConfig, ctxErr, config, attempt, elapsed>>
    /\ UNCHANGED classifierVars

\* case <-ctx.Done(): return result, ctx.Err()
WaitCancelledIgnored == FALSE /\ UNCHANGED vars
WaitCancelledContinues ==
    /\ pc = "wait"
    /\ ctxErr # "none"
    /\ attempt' = attempt + 1
    /\ pc' = "call"
    /\ exit' = "cancelled"
    /\ UNCHANGED <<callerConfig, ctxErr, config, result, lastErr, timer, ret,
                   events, calls, waits, elapsed, opOut, rejectedAt>>
    /\ UNCHANGED classifierVars
WaitCancelled ==
    /\ pc = "wait"
    /\ ctxErr # "none"
    /\ ret' = CancelReturn(result, ctxErr, config, lastErr)
    /\ pc' = "done"
    /\ exit' = "cancelled"
    /\ UNCHANGED <<callerConfig, ctxErr, config, attempt, result, lastErr, timer,
                   events, calls, waits, elapsed, opOut, rejectedAt>>
    /\ UNCHANGED classifierVars

\* case <-time.After(delay): then attempt++ and the loop condition
WaitElapsedNever == FALSE /\ UNCHANGED vars
WaitElapsed ==
    /\ pc = "wait"
    /\ elapsed' = elapsed + 1
    /\ attempt' = attempt + 1
    /\ timer' = NoTimer
    /\ IF attempt + 1 <= config.MaxAttempts
       THEN /\ pc' = "call"
            /\ UNCHANGED <<ret, exit>>
       ELSE /\ ret' = FinalReturn(result, config, lastErr)
            /\ pc' = "done"
            /\ exit' = "exhausted"
    /\ UNCHANGED <<callerConfig, ctxErr, config, result, lastErr, events, calls,
                   waits, opOut, rejectedAt>>
    /\ UNCHANGED classifierVars

Next == Cancel \/ Enter \/ CallOperation \/ WaitCancelled \/ WaitElapsed

Spec == Init /\ [][Next]_vars

\* The same behaviours, with what the runtime guarantees: a select with a
\* ready ctx.Done() case does not block, and a call of operationFn returns.
\* Nothing is assumed of the timer.
LiveSpec == Spec /\ WF_vars(WaitCancelled) /\ WF_vars(CallOperation)

\* The same behaviours when WithRetry gets to run, every call of operationFn
\* returns and every wait ends, by its timer or by the context.
TerminationSpec ==
    /\ Spec
    /\ WF_vars(Enter)
    /\ WF_vars(CallOperation)
    /\ WF_vars(WaitElapsed \/ WaitCancelled)

(***************************************************************************)
(* A direct call of shouldRetryError                                       *)
(***************************************************************************)
LoopIdle ==
    /\ callerConfig = [MaxAttempts |-> 0, MinDelay |-> 0, MaxDelay |-> 50,
                       Logger |-> FALSE, ShouldRetry |-> "nil"]
    /\ ctxErr = "none"
    /\ pc = "idle"
    /\ config = callerConfig
    /\ attempt = 0
    /\ result = ZeroValue
    /\ lastErr = Nil
    /\ timer = NoTimer
    /\ ret = NotReturned
    /\ events = << >>
    /\ calls = 0
    /\ waits = 0
    /\ elapsed = 0
    /\ opOut = [val |-> ZeroValue, err |-> Nil]
    /\ rejectedAt = 0
    /\ exit = "none"

ClassifyInit ==
    /\ LoopIdle
    /\ cpc = "ready"
    /\ cerr \in {Nil} \cup Errors(MaxDepth)
    /\ cret = FALSE

Classify ==
    /\ cpc = "ready"
    /\ cret' = shouldRetryError(cerr)
    /\ cpc' = "returned"
    /\ UNCHANGED <<cerr, loopVars>>

ClassifySpec == ClassifyInit /\ [][Classify]_vars

(***************************************************************************)
(* Properties                                                              *)
(***************************************************************************)
\* ShouldRetry accepts the error of the most recent attempt.
LastErrAccepted == lastErr # Nil /\ ShouldRetry(config.ShouldRetry, lastErr)

\* C1: with MaxAttempts = n >= 1 and a context that is never cancelled, when
\* WithRetry returns after an attempt whose error the classifier accepts (so
\* every attempt failed with an accepted error), the operation was invoked
\* exactly n times and the error is a RetryError with Attempts = n.
C1_ExhaustionAfterN ==
    (/\ pc = "done"
     /\ ctxErr = "none"
     /\ callerConfig.MaxAttempts >= 1
     /\ LastErrAccepted)
    => /\ calls = callerConfig.MaxAttempts
       /\ ret.err.type = "RetryError"
       /\ ret.err.Attempts = callerConfig.MaxAttempts

C1_Witness ==
    /\ pc = "done"
    /\ ctxErr = "none"
    /\ callerConfig.MaxAttempts = 3
    /\ LastErrAccepted
    /\ calls = 3
    /\ ret.err.type = "RetryError"

\* C2: once the classifier has rejected the error of attempt k, WithRetry has
\* returned, the operation has been invoked exactly k times and only the k-1
\* delays before attempt k were ever waited for; k = 1 whatever MaxAttempts.
C2_RejectionStopsLoop ==
    rejectedAt # 0
    => /\ pc = "done"
       /\ calls = rejectedAt
       /\ waits = rejectedAt - 1
       /\ elapsed = rejectedAt - 1
       /\ timer = NoTimer

C2_Witness ==
    /\ rejectedAt = 1
    /\ config.MaxAttempts = 3
    /\ pc = "done"
    /\ calls = 1
    /\ waits = 0

\* C3: in every RetryError returned, Attempts is the number of times the
\* operation was invoked.
C3_AttemptsAreInvocations ==
    (pc = "done" /\ ret.err.type = "RetryError") => ret.err.Attempts = calls

\* C4: when the k-th call of the operation returns no error, WithRetry has
\* returned that call's value with a nil error, after exactly k invocations
\* and exactly k-1 waits, each ended by its delay elapsing.
C4_SuccessOnAttemptK ==
    (calls >= 1 /\ opOut.err = Nil)
    => /\ pc = "done"
       /\ ret = [val |-> opOut.val, err |-> NoError]
       /\ calls = attempt
       /\ waits = calls - 1
       /\ elapsed = calls - 1

C4_Witness ==
    /\ pc = "done"
    /\ ctxErr = "none"
    /\ calls = 3
    /\ opOut.err = Nil
    /\ opOut.val # ZeroValue
    /\ ret.val = opOut.val
    /\ elapsed = 2

\* C5: when the cancellation branch of the wait is taken, WithRetry returns
\* ctx.Err() itself, which is no RetryError, and the operation has been invoked
\* only the times it had been when the wait began.
C5_CancelledWaitReturnsCtxErr ==
    exit = "cancelled"
    => /\ pc = "done"
       /\ ctxErr # "none"
       /\ ret.err = OtherError(SentinelError(ctxErr))
       /\ ret.err.type # "RetryError"
       /\ calls = waits
       /\ elapsed = waits - 1

C5_Witness ==
    /\ exit = "cancelled"
    /\ ctxErr = "DeadlineExceeded"
    /\ calls = 2
    /\ config.MaxAttempts = 3

\* C6: whenever WithRetry waits for a delay and the context is cancelled, it
\* eventually returns, with no assumption that the timer ever fires.
C6_CancelledWaitReturns ==
    [](pc = "wait" /\ ctxErr # "none" => <>(pc = "done"))

C6_Witness ==
    /\ exit = "cancelled"
    /\ elapsed = 0
    /\ waits = 1
    /\ pc = "done"

\* C7: when an invocation ends cancelled - through the cancellation branch of
\* the wait, or because the operation failed with the context's own
\* cancellation or deadline error - the error returned is that error itself,
\* not a RetryError.
C7_NoRetryErrorOnCancellation ==
    (/\ pc = "done"
     /\ ctxErr # "none"
     /\ \/ exit = "cancelled"
        \/ lastErr = SentinelError(ctxErr))
    => ret.err = OtherError(SentinelError(ctxErr))

\* An *HTTPError, bare or wrapped by fmt.Errorf("%w") only.
IsHTTPLike(err) ==
    /\ err # Nil
    /\ err[Len(err)].type = "HTTPError"
    /\ \A i \in 1..(Len(err) - 1) : err[i].type = "Wrapped"

StatusOf(err) == err[Len(err)].StatusCode

\* C8 as stated: for an HTTPError the classifier answers true iff the status
\* is >= 500 or 429, so 408 is not retryable.
C8_HTTPOnlyTemporary ==
    (cpc = "returned" /\ IsHTTPLike(cerr))
    => (cret <=> (StatusOf(cerr) >= 500 \/ StatusOf(cerr) = 429))

\* C8 amended: for an HTTPError the classifier answers true iff the status is
\* >= 500, 429 or 408: *HTTPError has the methods of net.Error, and the
\* net.Error row answers true when Timeout() does.
C8_HTTPTemporaryOrTimeout ==
    (cpc = "returned" /\ IsHTTPLike(cerr))
    => (cret <=> (StatusOf(cerr) >= 500 \/ StatusOf(cerr) = 429
                  \/ StatusOf(cerr) = 408))

C8_Witness ==
    /\ cpc = "returned"
    /\ cerr = <<Layer("HTTPError", 408, FALSE)>>
    /\ cret

\* C9: when the caller sets no classifier, a failed attempt whose error
\* shouldRetryError rejects ends the loop at once with the aborted return,
\* and one it accepts never does: the loop waits and goes on while attempts
\* remain.
C9_NilClassifierIsBuiltin ==
    (callerConfig.ShouldRetry = "nil" /\ calls >= 1 /\ lastErr # Nil)
    => IF shouldRetryError(lastErr)
       THEN /\ exit # "aborted"
            /\ (pc = "done" /\ exit # "cancelled") => calls = config.MaxAttempts
       ELSE pc = "done" /\ exit = "aborted" /\ calls = attempt

C9_Witness ==
    /\ callerConfig.ShouldRetry = "nil"
    /\ config.MaxAttempts = 3
    /\ calls = 2
    /\ elapsed = 1
    /\ exit = "aborted"
    /\ ~shouldRetryError(lastErr)

\* C10 as stated: whenever WithRetry returns a non-nil error, the result it
\* returns is the zero value of T.
C10_ZeroValueOnError ==
    (pc = "done" /\ ret.err.type # "nil") => ret.val = ZeroValue

\* C10 amended: whenever WithRetry returns a non-nil error, the result it
\* returns is the value the most recent call of the operation returned beside
\* its error.
C10_LastValueOnError ==
    (pc = "done" /\ ret.err.type # "nil") => ret.val = opOut.val

C10_Witness ==
    /\ pc = "done"
    /\ ret.err.type = "RetryError"
    /\ opOut.val # ZeroValue
    /\ ret.val = opOut.val

\* C11: an invocation that has returned has returned a nil error, a
\* RetryError or the context's own cancellation error, after at least one
\* attempt; the error is nil exactly when the last attempt made returned no
\* error, so no failure is returned as nil.
C11_ThreeOutcomes ==
    pc = "done"
    => /\ calls >= 1
       /\ ret.err.type \in {"nil", "RetryError", "error"}
       /\ ret.err.type = "error"
            => (ctxErr # "none" /\ ret.err.value = <<Layer(ctxErr, 0, FALSE)>>)
       /\ (ret.err.type = "nil") <=> (opOut.err = Nil)

C11_Witness ==
    /\ pc = "done"
    /\ ret.err.type = "error"
    /\ opOut.err # Nil
    /\ calls = 2

\* The policy in force once the defaults are applied.
EffectivePolicy ==
    /\ config.MaxAttempts =
         (IF callerConfig.MaxAttempts <= 0 THEN 3 ELSE callerConfig.MaxAttempts)
    /\ config.MinDelay =
         (IF callerConfig.MinDelay <= 0 THEN 100 ELSE callerConfig.MinDelay)
    /\ config.MaxDelay =
         (IF callerConfig.MaxDelay <= 0 THEN 5000 ELSE callerConfig.MaxDelay)
    /\ config.MaxAttempts >= 1 /\ config.MinDelay > 0 /\ config.MaxDelay > 0
    /\ calls <= config.MaxAttempts
    /\ pc = "wait"
         => (timer.MinDelay = config.MinDelay /\ timer.MaxDelay = config.MaxDelay)

\* C12: from the moment WithRetry has started, MaxAttempts, MinDelay and
\* MaxDelay are the caller's when positive and 3, 100 ms and 5 s otherwise,
\* field by field, and the loop and its delays use them; the caller's
\* RetryConfig never changes.
C12_DefaultsApplied ==
    /\ [](pc # "entry" => EffectivePolicy)
    /\ [][callerConfig' = callerConfig]_vars

C12_Witness ==
    /\ pc = "wait"
    /\ callerConfig.MaxAttempts = -1
    /\ callerConfig.MinDelay = 10
    /\ callerConfig.MaxDelay = -5
    /\ timer = [attempt |-> 2, MinDelay |-> 10, MaxDelay |-> 5000]
    /\ config.MaxAttempts = 3

\* C13 as stated: no attempt a >= 2 starts with the context cancelled.
C13_NoAttemptWhileCancelled ==
    [][(calls' = calls + 1 /\ attempt >= 2) => ctxErr = "none"]_vars

\* C13 amended: once the cancellation branch of the wait has been taken, the
\* operation is never invoked again.  (The context is not looked at anywhere
\* else: an attempt does start with the context cancelled when the select took
\* the timer branch, or the cancellation came after it.)
C13_NoAttemptAfterObservedCancel ==
    [][exit = "cancelled" => (calls' = calls /\ pc' = "done")]_vars

C13_Witness ==
    /\ exit = "cancelled"
    /\ ctxErr = "Canceled"
    /\ calls = 2
    /\ elapsed = 1
    /\ config.MaxAttempts = 3

\* C14: a wait only ever follows an attempt before the last, and its delay is
\* the calculator's for that attempt's index and the policy's bounds; so on
\* exhaustion exactly MaxAttempts - 1 delays were waited for, all elapsed,
\* and the RetryError is returned whether or not the context is cancelled.
C14_NoDelayAfterFinalAttempt ==
    /\ pc = "wait"
         => /\ attempt < config.MaxAttempts
            /\ timer = [attempt |-> attempt, MinDelay |-> config.MinDelay,
                        MaxDelay |-> config.MaxDelay]
            /\ waits = attempt
    /\ exit = "exhausted"
         => /\ waits = config.MaxAttempts - 1
            /\ elapsed = waits
            /\ calls = config.MaxAttempts
            /\ timer = NoTimer
            /\ ret.err.type = "RetryError"

C14_Witness ==
    /\ exit = "exhausted"
    /\ ctxErr # "none"
    /\ config.MaxAttempts = 3
    /\ waits = 2
    /\ callerConfig.MaxAttempts = 3

\* C15: the classifier answers false for nil, for every error one of whose
\* layers is context.Canceled or context.DeadlineExceeded, whatever wraps it,
\* and for every error made of plain and wrapping layers only.
C15_CancellationFirst ==
    cpc = "returned"
    => /\ cerr = Nil => ~cret
       /\ (\E i \in 1..Len(cerr) : cerr[i].type \in {"Canceled", "DeadlineExceeded"})
            => ~cret
       /\ (\A i \in 1..Len(cerr) : cerr[i].type \in {"Plain", "Wrapped"}) => ~cret

C15_Witness ==
    /\ cpc = "returned"
    /\ cerr = <<Layer("URLError", 0, FALSE), Layer("OpError", 0, FALSE),
                Layer("DeadlineExceeded", 0, FALSE)>>
    /\ ~cret

\* C16: the LastError of a returned RetryError is the error the most recent
\* call of the operation returned, it is not nil, and Unwrap gives it.
C16_LastErrorIsFinal ==
    (pc = "done" /\ ret.err.type = "RetryError")
    => /\ calls >= 1
       /\ opOut.err # Nil
       /\ ret.err.LastError = opOut.err
       /\ Unwrap(ret.err) = opOut.err

C16_Witness ==
    /\ pc = "done"
    /\ ret.err.type = "RetryError"
    /\ calls = 3
    /\ Unwrap(ret.err) = <<Layer("HTTPError", 503, FALSE)>>
    /\ exit = "exhausted"

CountKind(log, kind) == Cardinality({i \in 1..Len(log) : log[i].kind = kind})

\* C17: without a Logger nothing is ever logged; with one, "succeeded" is
\* logged exactly once, last, with the attempt's index, when WithRetry has
\* returned success on an attempt > 1, and never otherwise; a success on
\* attempt 1 leaves the log empty.
C17_SucceededEvent ==
    /\ ~callerConfig.Logger => events = << >>
    /\ callerConfig.Logger
         => IF exit = "success" /\ attempt > 1
            THEN /\ CountKind(events, "succeeded") = 1
                 /\ events[Len(events)] = Event("succeeded", attempt)
            ELSE CountKind(events, "succeeded") = 0
    /\ (exit = "success" /\ attempt = 1) => events = << >>

C17_Witness ==
    /\ callerConfig.Logger
    /\ exit = "success"
    /\ attempt = 3
    /\ events = <<Event("will retry", 1), Event("will retry", 2),
                  Event("succeeded", 3)>>

\* C18 as stated: with a Logger, when the classifier rejects the error of
\* attempt 1, "will retry" for attempt 1 is logged and then "aborted".
C18_WillRetryBeforeAborted ==
    (callerConfig.Logger /\ rejectedAt = 1)
    => events = <<Event("will retry", 1), Event("aborted", 1)>>

\* C18 amended: with a Logger, a failed attempt logs "will retry" exactly when
\* the classifier accepts its error, attempt 1 and the last attempt included;
\* when the classifier rejects it, "aborted" alone is logged for that attempt
\* and no further attempt is made.
C18_WillRetryIffAccepted ==
    (callerConfig.Logger /\ calls >= 1)
    => /\ \A i \in 1..(calls - 1) : events[i] = Event("will retry", i)
       /\ lastErr # Nil
            => /\ Len(events) = calls
               /\ events[calls] = (IF rejectedAt = calls
                                   THEN Event("aborted", calls)
                                   ELSE Event("will retry", calls))
       /\ rejectedAt # 0 => (pc = "done" /\ calls = rejectedAt)

C18_Witness ==
    /\ callerConfig.Logger
    /\ rejectedAt = 1
    /\ events = <<Event("aborted", 1)>>
    /\ config.MaxAttempts = 3
    /\ pc = "done"

\* C19: the operation can always be invoked when the loop is at a call,
\* whatever the state of the context; once past the first call the number of
\* invocations is at least 1, and it never exceeds the effective MaxAttempts.
C19_AtLeastOneAttempt ==
    /\ pc = "call" => ENABLED CallOperation
    /\ pc \in {"wait", "done"} => calls >= 1
    /\ pc # "entry" => calls <= config.MaxAttempts

C19_Witness ==
    /\ pc = "done"
    /\ attempt = 1
    /\ calls = 1
    /\ ctxErr = "Canceled"
    /\ exit = "success"

\* C20: WithRetry eventually returns, when each call of the operation returns
\* and each wait ends.
C20_Terminates == <>(pc = "done")

C20_Witness ==
    /\ pc = "done"
    /\ config.ShouldRetry = "plainOnly"
    /\ calls = 3
    /\ elapsed = 2
    /\ exit = "aborted"

====
